---- MODULE Spec2Model ----
(***************************************************************************)
(* Disaster alert portal (src/app.py): subscriber registration, the admin  *)
(* session, the admin operations on the tables, the alert broadcast, the   *)
(* missing-person reports and the listings of reports and alerts.          *)
(*                                                                         *)
(* Text values are sequences of one-character strings, so that strip(),    *)
(* lower(), isdigit() and len() are computed and not assumed.              *)
(***************************************************************************)
EXTENDS Integers, Sequences, FiniteSets, TLC

\* ------------------------------------------------------------------ bounds
\* Largest AUTOINCREMENT id the model hands out in the users table.
MaxUserId == 3

\* ------------------------------------------------------------------ text
\* Python None / SQL NULL: a value different from every text over Chars.
None == << "None" >>

Digits == {"0", "1", "2", "3", "4", "5", "6", "7", "8", "9"}

\* str.lower() on one character.
LowerChar(c) ==
    CASE c = "A" -> "a"
      [] c = "B" -> "b"
      [] c = "P" -> "p"
      [] c = "G" -> "g"
      [] OTHER -> c

\* str.lower()
lower(s) == [i \in DOMAIN s |-> LowerChar(s[i])]

\* str.strip(): leading and trailing blanks removed.
RECURSIVE lstrip(_)
lstrip(s) == IF s # << >> /\ Head(s) = " " THEN lstrip(Tail(s)) ELSE s

RECURSIVE rstrip(_)
rstrip(s) ==
    IF s # << >> /\ s[Len(s)] = " " THEN rstrip(SubSeq(s, 1, Len(s) - 1)) ELSE s

strip(s) == rstrip(lstrip(s))

\* The character U+00B2 SUPERSCRIPT TWO, one element of a text: a character
\* for which str.isdigit() is True and which is not a decimal digit.
Sup2 == "^2"

\* str.isdigit(): non-empty and every character a digit, the decimal digits
\* and the other characters of Unicode with the property Numeric_Type=Digit.
isdigit(s) == s # << >> /\ \A i \in DOMAIN s : s[i] \in Digits \cup {Sup2}

\* Python truthiness of a text or None.
Truthy(s) == s # None /\ s # << >>

\* ------------------------------------------------------------------ inputs
EmailA == << "a", "@", "x" >>
EmailB == << "b", "@", "x" >>
RawEmails == { << >>, EmailA, << " ", "A", "@", "x", " " >>, EmailB }

TenDigits == << "9", "8", "7", "6", "5", "4", "3", "2", "1", "0" >>
RawPhones ==
    { << >>, TenDigits, << " " >> \o TenDigits \o << " " >>,
      SubSeq(TenDigits, 1, 9),
      << "9", "8", "7", "6", "5", "x", "3", "2", "1", "0" >>,
      [i \in 1..10 |-> Sup2] }

Pune == << "P", "u", "n", "e" >>
pune == << "p", "u", "n", "e" >>
Goa  == << "G", "o", "a" >>
RawLocations == { << " " >>, << " " >> \o Pune \o << " " >> }

\* The fields of a registration request; an absent field is the empty text.
RegForms == [email : RawEmails, phone : RawPhones, location : RawLocations]

\* The entry points of registration: /register with a JSON body, /register
\* with a form body, /api/register (JSON only).
RegModes == {"register_json", "register_form", "api_register"}

\* The request threads that may run a registration concurrently.
RegReqs == {"r1", "r2"}

\* The browser sessions (signed cookies).
Clients == {"c1", "c2"}

Usernames == {"admin", "root"}
Passwords == {"admin123", "wrong"}

\* ------------------------------------------------------------------ state
VARIABLES
    users,            \* table users: rows [id, email, phone, location]
    nextUserId,       \* AUTOINCREMENT counter of users
    volunteers,       \* table volunteers: rows [id, email]
    nextVolId,
    missing_persons,  \* table missing_persons: rows [id, status, photo_url,
                      \*   created_at]
    nextPersonId,
    admins,           \* table admins: rows [username, password]
    alerts,           \* table alerts: sequence of rows, in insertion order
    session,          \* session[c]: admin_logged_in of client c
    reg,              \* reg[r]: the registration request thread r
    bc,               \* the add_alert request in flight and its broadcast
    resp,             \* the last response of an admin or public request
    env               \* the process environment: which credentials are set

vars ==
    << users, nextUserId, volunteers, nextVolId, missing_persons, nextPersonId,
       admins, alerts, session, reg, bc, resp, env >>

\* werkzeug generate_password_hash / check_password_hash.
generate_password_hash(p) == << "hash", p >>
check_password_hash(h, p) == h = generate_password_hash(p)

Idle == [pc |-> "idle"]
NoResp == [op |-> "none"]

\* init_db() on a fresh database: empty tables and the seeded administrator.
init_db ==
    /\ users = {}
    /\ nextUserId = 1
    /\ volunteers = {}
    /\ nextVolId = 1
    /\ missing_persons = {}
    /\ nextPersonId = 1
    /\ admins = { [username |-> "admin",
                   password |-> generate_password_hash("admin123")] }
    /\ alerts = << >>

\* The .env file: TWILIO_SID, TWILIO_TOKEN and TWILIO_PHONE set or not (the
\* Twilio client is built at import), EMAIL_HOST/PORT/USER/PASS set or not.
Envs == [twilio : BOOLEAN, email : BOOLEAN]
Configured == [twilio |-> TRUE, email |-> TRUE]

\* The server after start-up, with every credential configured.
Init ==
    /\ init_db
    /\ session = [c \in Clients |-> FALSE]
    /\ reg = [r \in RegReqs |-> Idle]
    /\ bc = Idle
    /\ resp = NoResp
    /\ env = Configured

\* ------------------------------------------------------------------ register
\* The response of a registration branch: jsonify(...) with its status code
\* for a JSON request, the rendered register.html (200) for a form request.
RegResponse(mode, kind) ==
    [pc |-> "done", kind |-> kind,
     code |-> IF mode = "register_form" THEN 200
              ELSE CASE kind = "validation" -> 400
                     [] kind = "conflict" -> 409
                     [] kind = "created" -> 201
                     [] OTHER -> 500]

\* email = request...get("email", "").strip().lower(), and so on: the local
\* variables of register / api_register, computed from the request's fields.
NormEmail(raw) == lower(strip(raw))
NormPhone(raw) == strip(raw)
NormLocation(raw) == strip(raw)

\* phone_with_prefix = f"+91{phone}"
phone_with_prefix(phone) == << "+", "9", "1" >> \o phone

\* "if not all([email, phone, location])" and "if not phone.isdigit() or
\* len(phone) != 10": TRUE when the request passes both validations.
RegValid(form) ==
    /\ Truthy(NormEmail(form.email))
    /\ Truthy(NormPhone(form.phone))
    /\ Truthy(NormLocation(form.location))
    /\ isdigit(NormPhone(form.phone))
    /\ Len(NormPhone(form.phone)) = 10

\* Mutant: the duplicate check finds nothing.
EmailExists_NoCheck(email) == FALSE

\* SELECT id FROM users WHERE email=?  (BINARY collation: exact match)
EmailExists(email) == \E u \in users : u.email = email

\* register / api_register: a request thread takes the request and reads its
\* fields (request.get_json() or request.form).
RegisterReceive(r, mode, form) ==
    /\ reg[r].pc \in {"idle", "done"}
    /\ reg' = [reg EXCEPT ![r] = [pc |-> "recv", mode |-> mode, form |-> form]]
    /\ UNCHANGED << users, nextUserId, volunteers, nextVolId, missing_persons,
                    nextPersonId, admins, alerts, session, bc, resp, env >>

\* register / api_register up to the duplicate check: the two validations and
\* the SELECT. A request that passes waits at the INSERT.
RegisterCheck(r) ==
    /\ reg[r].pc = "recv"
    /\ reg' = [reg EXCEPT ![r] =
          IF ~RegValid(reg[r].form)
            THEN RegResponse(reg[r].mode, "validation")
          ELSE IF EmailExists(NormEmail(reg[r].form.email))
            THEN RegResponse(reg[r].mode, "conflict")
          ELSE [pc |-> "insert", mode |-> reg[r].mode, form |-> reg[r].form]]
    /\ UNCHANGED << users, nextUserId, volunteers, nextVolId, missing_persons,
                    nextPersonId, admins, alerts, session, bc, resp, env >>

\* Mutant: the email column without its UNIQUE constraint.
UniqueEmail_NoConstraint(email) == TRUE

\* The UNIQUE constraint on users.email: TRUE when the INSERT is accepted.
UniqueEmail(email) == ~ \E u \in users : u.email = email

\* Mutant: the phone stored as typed, without the prefix.
NewUser_NoPrefix(form) ==
    [id |-> nextUserId, email |-> NormEmail(form.email),
     phone |-> NormPhone(form.phone),
     location |-> NormLocation(form.location)]

\* The row INSERT INTO users(email, phone, location, created_at) adds.
NewUser(form) ==
    [id |-> nextUserId, email |-> NormEmail(form.email),
     phone |-> phone_with_prefix(NormPhone(form.phone)),
     location |-> NormLocation(form.location)]

\* Mutant: INSERT OR REPLACE, the new row takes the place of the stored one.
RegisterInsert_OrReplace(r) ==
    /\ reg[r].pc = "insert"
    /\ nextUserId <= MaxUserId
    /\ users' = { u \in users : u.email # NormEmail(reg[r].form.email) }
                   \cup { NewUser(reg[r].form) }
    /\ nextUserId' = nextUserId + 1
    /\ reg' = [reg EXCEPT ![r] = RegResponse(reg[r].mode, "created")]
    /\ UNCHANGED << volunteers, nextVolId, missing_persons, nextPersonId,
                    admins, alerts, session, bc, resp, env >>

\* INSERT INTO users ... ; commit. An IntegrityError is caught: "failed".
RegisterInsert(r) ==
    /\ reg[r].pc = "insert"
    /\ IF UniqueEmail(NormEmail(reg[r].form.email))
         THEN /\ nextUserId <= MaxUserId
              /\ users' = users \cup { NewUser(reg[r].form) }
              /\ nextUserId' = nextUserId + 1
              /\ reg' = [reg EXCEPT ![r] = RegResponse(reg[r].mode, "created")]
         ELSE /\ UNCHANGED << users, nextUserId >>
              /\ reg' = [reg EXCEPT ![r] = RegResponse(reg[r].mode, "failed")]
    /\ UNCHANGED << volunteers, nextVolId, missing_persons, nextPersonId,
                    admins, alerts, session, bc, resp, env >>

\* ------------------------------------------------------------------ session
Response(op, kind, code) == [op |-> op, kind |-> kind, code |-> code]

\* Mutant: the handlers do not look at the session.
LoggedIn_NoCheck(c) == TRUE

\* session.get("admin_logged_in")
LoggedIn(c) == session[c]

\* SELECT password FROM admins WHERE username=? ; check_password_hash
ValidLogin(username, password) ==
    \E a \in admins :
        /\ a.username = username
        /\ check_password_hash(a.password, password)

\* POST /admin/login
admin_login(c, username, password) ==
    /\ IF ValidLogin(username, password)
         THEN /\ session' = [session EXCEPT ![c] = TRUE]
              /\ resp' = Response("admin_login", "redirect_dashboard", 302)
         ELSE /\ UNCHANGED session
              /\ resp' = Response("admin_login", "invalid_login", 200)
    /\ UNCHANGED << users, nextUserId, volunteers, nextVolId, missing_persons,
                    nextPersonId, admins, alerts, reg, bc, env >>

\* POST /api/admin/login; an absent or empty field is the empty text.
api_admin_login(c, username, password) ==
    /\ IF username = "" \/ password = ""
         THEN /\ UNCHANGED session
              /\ resp' = Response("api_admin_login", "bad_request", 400)
         ELSE IF ValidLogin(username, password)
         THEN /\ session' = [session EXCEPT ![c] = TRUE]
              /\ resp' = Response("api_admin_login", "ok", 200)
         ELSE /\ UNCHANGED session
              /\ resp' = Response("api_admin_login", "invalid_credentials", 401)
    /\ UNCHANGED << users, nextUserId, volunteers, nextVolId, missing_persons,
                    nextPersonId, admins, alerts, reg, bc, env >>

\* GET /admin/logout: session.clear()
admin_logout(c) ==
    /\ session' = [session EXCEPT ![c] = FALSE]
    /\ resp' = Response("admin_logout", "redirect_home", 302)
    /\ UNCHANGED << users, nextUserId, volunteers, nextVolId, missing_persons,
                    nextPersonId, admins, alerts, reg, bc, env >>

\* POST /api/admin/logout: session.clear()
api_admin_logout(c) ==
    /\ session' = [session EXCEPT ![c] = FALSE]
    /\ resp' = Response("api_admin_logout", "ok", 200)
    /\ UNCHANGED << users, nextUserId, volunteers, nextVolId, missing_persons,
                    nextPersonId, admins, alerts, reg, bc, env >>

\* ------------------------------------------------------------------ users
\* POST /admin/delete_user/<id>
admin_delete_user(c, user_id) ==
    /\ IF ~LoggedIn(c)
         THEN /\ UNCHANGED users
              /\ resp' = Response("admin_delete_user", "redirect_login", 302)
         ELSE /\ users' = { u \in users : u.id # user_id }
              /\ resp' = Response("admin_delete_user", "redirect_dashboard", 302)
    /\ UNCHANGED << nextUserId, volunteers, nextVolId, missing_persons,
                    nextPersonId, admins, alerts, session, reg, bc, env >>

\* DELETE /api/admin/delete_user/<id>
api_admin_delete_user(c, user_id) ==
    /\ IF ~LoggedIn(c)
         THEN /\ UNCHANGED users
              /\ resp' = Response("api_admin_delete_user", "unauthorized", 401)
         ELSE IF ~ \E u \in users : u.id = user_id
         THEN /\ UNCHANGED users
              /\ resp' = Response("api_admin_delete_user", "not_found", 404)
         ELSE /\ users' = { u \in users : u.id # user_id }
              /\ resp' = Response("api_admin_delete_user", "ok", 200)
    /\ UNCHANGED << nextUserId, volunteers, nextVolId, missing_persons,
                    nextPersonId, admins, alerts, session, reg, bc, env >>

\* ------------------------------------------------------------------ volunteers
\* Largest AUTOINCREMENT id the model hands out in the volunteers table.
MaxVolId == 2

VolEmails == {"v1@x", "v2@x"}

\* POST /volunteer/enroll with a complete form: the duplicate check, the INSERT.
volunteer_enroll(email) ==
    /\ IF \E v \in volunteers : v.email = email
         THEN /\ UNCHANGED << volunteers, nextVolId >>
              /\ resp' = Response("volunteer_enroll", "already_registered", 302)
         ELSE /\ nextVolId <= MaxVolId
              /\ volunteers' = volunteers \cup { [id |-> nextVolId, email |-> email] }
              /\ nextVolId' = nextVolId + 1
              /\ resp' = Response("volunteer_enroll", "enrolled", 302)
    /\ UNCHANGED << users, nextUserId, missing_persons, nextPersonId, admins,
                    alerts, session, reg, bc, env >>

\* POST /volunteer/delete/<id>
delete_volunteer(c, vol_id) ==
    /\ IF ~LoggedIn(c)
         THEN /\ UNCHANGED volunteers
              /\ resp' = Response("delete_volunteer", "redirect_login", 302)
         ELSE /\ volunteers' = { v \in volunteers : v.id # vol_id }
              /\ resp' = Response("delete_volunteer", "redirect_volunteers", 302)
    /\ UNCHANGED << users, nextUserId, nextVolId, missing_persons, nextPersonId,
                    admins, alerts, session, reg, bc, env >>

\* POST /admin/delete_volunteer/<id>
admin_delete_volunteer(c, vol_id) ==
    /\ IF ~LoggedIn(c)
         THEN /\ UNCHANGED volunteers
              /\ resp' = Response("admin_delete_volunteer", "redirect_login", 302)
         ELSE /\ volunteers' = { v \in volunteers : v.id # vol_id }
              /\ resp' = Response("admin_delete_volunteer", "redirect_dashboard", 302)
    /\ UNCHANGED << users, nextUserId, nextVolId, missing_persons, nextPersonId,
                    admins, alerts, session, reg, bc, env >>

\* DELETE /api/admin/delete_volunteer/<id>
api_admin_delete_volunteer(c, vol_id) ==
    /\ IF ~LoggedIn(c)
         THEN /\ UNCHANGED volunteers
              /\ resp' = Response("api_admin_delete_volunteer", "unauthorized", 401)
         ELSE IF ~ \E v \in volunteers : v.id = vol_id
         THEN /\ UNCHANGED volunteers
              /\ resp' = Response("api_admin_delete_volunteer", "not_found", 404)
         ELSE /\ volunteers' = { v \in volunteers : v.id # vol_id }
              /\ resp' = Response("api_admin_delete_volunteer", "ok", 200)
    /\ UNCHANGED << users, nextUserId, nextVolId, missing_persons, nextPersonId,
                    admins, alerts, session, reg, bc, env >>

\* ------------------------------------------------------------------ missing
\* Largest AUTOINCREMENT id the model hands out in the missing_persons table.
MaxPersonId == 2

\* upload_result["secure_url"]
PhotoUrl == << "u", "r", "l" >>

\* The photo of a report request: no file, a file Cloudinary stores, a file
\* whose upload raises.
Photos == {"none", "uploaded", "upload_fails"}

\* The status values an update request may carry; absent means 'active'.
Statuses == {"active", "resolved", "found"}

\* DEFAULT CURRENT_TIMESTAMP has a resolution of one second: the values a new
\* row's created_at may take, the second of the newest stored row or a later
\* one. Seconds are counted from the first row.
Timestamps(rows) ==
    IF rows = {} THEN {1}
    ELSE LET newest == CHOOSE t \in { x.created_at : x \in rows } :
                          \A x \in rows : x.created_at <= t
         IN  {newest, newest + 1}

\* Mutant: a report without a photo stores the empty text as its reference.
NewReport_EmptyPhoto(photo, created_at) ==
    [id |-> nextPersonId, status |-> "active",
     photo_url |-> IF photo = "uploaded" THEN PhotoUrl ELSE << >>,
     created_at |-> created_at]

\* The row INSERT INTO missing_persons(..., photo_url, status) adds.
NewReport(photo, created_at) ==
    [id |-> nextPersonId, status |-> "active",
     photo_url |-> IF photo = "uploaded" THEN PhotoUrl ELSE None,
     created_at |-> created_at]

\* POST /report-missing: the upload, the INSERT; complete is FALSE when a
\* required form field is absent (request.form[...] raises inside the try).
report_missing(is_api_request, photo, complete) ==
    /\ IF photo = "upload_fails" /\ is_api_request
         THEN /\ UNCHANGED << missing_persons, nextPersonId >>
              /\ resp' = Response("report_missing", "photo_upload_failed", 500)
         ELSE IF ~complete
         THEN /\ UNCHANGED << missing_persons, nextPersonId >>
              /\ resp' = IF is_api_request
                           THEN Response("report_missing", "failed", 500)
                           ELSE Response("report_missing", "failed", 302)
         ELSE /\ nextPersonId <= MaxPersonId
              /\ \E t \in Timestamps(missing_persons) :
                    missing_persons' = missing_persons \cup { NewReport(photo, t) }
              /\ nextPersonId' = nextPersonId + 1
              /\ resp' = IF is_api_request
                           THEN Response("report_missing", "created", 201)
                           ELSE Response("report_missing", "created", 302)
    /\ UNCHANGED << users, nextUserId, volunteers, nextVolId, admins, alerts,
                    session, reg, bc, env >>

\* POST /api/report-missing: every field is read with data.get(...).
api_report_missing(photo) ==
    /\ nextPersonId <= MaxPersonId
    /\ \E t \in Timestamps(missing_persons) :
          missing_persons' = missing_persons \cup { NewReport(photo, t) }
    /\ nextPersonId' = nextPersonId + 1
    /\ resp' = Response("api_report_missing", "created", 201)
    /\ UNCHANGED << users, nextUserId, volunteers, nextVolId, admins, alerts,
                    session, reg, bc, env >>

\* UPDATE missing_persons SET status=? WHERE id=?
UpdateStatus(rows, person_id, new_status) ==
    { IF p.id = person_id THEN [p EXCEPT !.status = new_status] ELSE p : p \in rows }

\* POST /missing/update-status/<id> with a JSON body
update_missing_status(c, person_id, new_status) ==
    /\ IF ~LoggedIn(c)
         THEN /\ UNCHANGED missing_persons
              /\ resp' = Response("update_missing_status", "unauthorized", 401)
         ELSE /\ missing_persons' = UpdateStatus(missing_persons, person_id, new_status)
              /\ resp' = Response("update_missing_status", "ok", 200)
    /\ UNCHANGED << users, nextUserId, volunteers, nextVolId, nextPersonId,
                    admins, alerts, session, reg, bc, env >>

\* POST /admin/delete_missing/<id>
admin_delete_missing(c, person_id) ==
    /\ IF ~LoggedIn(c)
         THEN /\ UNCHANGED missing_persons
              /\ resp' = Response("admin_delete_missing", "redirect_login", 302)
         ELSE /\ missing_persons' = { p \in missing_persons : p.id # person_id }
              /\ resp' = Response("admin_delete_missing", "redirect_dashboard", 302)
    /\ UNCHANGED << users, nextUserId, volunteers, nextVolId, nextPersonId,
                    admins, alerts, session, reg, bc, env >>

\* ORDER BY id DESC
IdDesc(a, b) == a.id >= b.id

\* ORDER BY created_at DESC
CreatedDesc(a, b) == a.created_at >= b.created_at

\* ORDER BY CASE WHEN status = 'active' THEN 0 ELSE 1 END, created_at DESC
ActiveFirstCreatedDesc(a, b) ==
    LET rank(x) == IF x.status = "active" THEN 0 ELSE 1
    IN  \/ rank(a) < rank(b)
        \/ rank(a) = rank(b) /\ a.created_at >= b.created_at

\* TRUE when the ORDER BY clause allows row a before row b.
Before(order, a, b) ==
    CASE order = "id DESC" -> IdDesc(a, b)
      [] order = "created_at DESC" -> CreatedDesc(a, b)
      [] order = "active first, created_at DESC" -> ActiveFirstCreatedDesc(a, b)

\* The result sets of a SELECT over rows with an ORDER BY clause: every order
\* of the rows the clause allows. Rows with equal sort keys come in an order
\* SQLite does not define.
OrderBy(rows, order) ==
    { s \in [1..Cardinality(rows) -> rows] :
        /\ \A i, j \in DOMAIN s : i # j => s[i] # s[j]
        /\ \A i, j \in DOMAIN s : i < j => Before(order, s[i], s[j]) }

\* The response of a listing request: the rows handed to the template or to
\* jsonify, in their order.
Listing(op, rows) == [op |-> op, kind |-> "ok", code |-> 200, rows |-> rows]

\* GET /missing: every report, active ones first.
missing ==
    /\ \E rows \in OrderBy(missing_persons, "active first, created_at DESC") :
          resp' = Listing("missing", rows)
    /\ UNCHANGED << users, nextUserId, volunteers, nextVolId, missing_persons,
                    nextPersonId, admins, alerts, session, reg, bc, env >>

\* GET /api/missing-persons: WHERE status = 'active' ORDER BY created_at DESC
api_missing_persons ==
    /\ \E rows \in OrderBy({ p \in missing_persons : p.status = "active" },
                           "created_at DESC") :
          resp' = Listing("api_missing_persons", rows)
    /\ UNCHANGED << users, nextUserId, volunteers, nextVolId, missing_persons,
                    nextPersonId, admins, alerts, session, reg, bc, env >>

\* ------------------------------------------------------------------ alerts
\* Largest number of rows the model stores in the alerts table.
MaxAlerts == 2

\* ThreadPoolExecutor(max_workers=10)
max_workers == 10

Max(a, b) == IF a >= b THEN a ELSE b

\* The rows of a result set in rowid order.
RECURSIVE RowsById(_)
RowsById(S) ==
    IF S = {} THEN << >>
    ELSE LET first == CHOOSE x \in S : \A y \in S : x.id <= y.id
         IN  << first >> \o RowsById(S \ {first})

\* WHERE location=?  (BINARY collation: exact, case-sensitive match)
LocationMatches(stored, location) == stored = location

\* Mutant: every subscriber is taken when none is in the location.
ResolveUsers_FallbackAll(location) ==
    IF Truthy(location) /\ \E u \in users : LocationMatches(u.location, location)
      THEN RowsById({ u \in users : LocationMatches(u.location, location) })
      ELSE RowsById(users)

\* broadcast_alert: "SELECT phone,email FROM users WHERE location=?" when a
\* location is given, else "SELECT phone,email FROM users".
ResolveUsers(location) ==
    IF Truthy(location)
      THEN RowsById({ u \in users : LocationMatches(u.location, location) })
      ELSE RowsById(users)

\* [u[field] for u in rows if u[field]]
RECURSIVE Column(_, _)
Column(rows, field) ==
    IF rows = << >> THEN << >>
    ELSE IF Truthy(Head(rows)[field])
      THEN << Head(rows)[field] >> \o Column(Tail(rows), field)
      ELSE Column(Tail(rows), field)

\* A task is queued while the pool's workers are all busy.
SubmitAll(n) == [i \in 1..n |-> IF i <= max_workers THEN "running" ELSE "queued"]

\* Mutant: the alert row is not written before the broadcast starts.
add_alert_NoCommit(c, title, message, location) ==
    /\ bc.pc \in {"idle", "done"}
    /\ IF ~LoggedIn(c)
         THEN /\ resp' = Response("add_alert", "redirect_login", 302)
              /\ UNCHANGED bc
         ELSE IF ~Truthy(title) \/ ~Truthy(message)
         THEN /\ resp' = Response("add_alert", "title_message_required", 302)
              /\ UNCHANGED bc
         ELSE /\ Len(alerts) < MaxAlerts
              /\ bc' = [pc |-> "broadcast", alert |-> Len(alerts) + 1,
                        location |-> location]
              /\ UNCHANGED resp
    /\ UNCHANGED << users, nextUserId, volunteers, nextVolId, missing_persons,
                    nextPersonId, admins, alerts, session, reg, env >>

\* POST /admin/add_alert up to the commit of the alert row; the request then
\* goes on to broadcast_alert. One add_alert request is in flight at a time.
add_alert(c, title, message, location) ==
    /\ bc.pc \in {"idle", "done"}
    /\ IF ~LoggedIn(c)
         THEN /\ resp' = Response("add_alert", "redirect_login", 302)
              /\ UNCHANGED << alerts, bc >>
         ELSE IF ~Truthy(title) \/ ~Truthy(message)
         THEN /\ resp' = Response("add_alert", "title_message_required", 302)
              /\ UNCHANGED << alerts, bc >>
         ELSE /\ Len(alerts) < MaxAlerts
              /\ \E t \in Timestamps({ alerts[i] : i \in DOMAIN alerts }) :
                    alerts' = Append(alerts,
                       [id |-> Len(alerts) + 1, title |-> title,
                        message |-> message, location |-> location,
                        created_at |-> t])
              /\ bc' = [pc |-> "broadcast", alert |-> Len(alerts) + 1,
                        location |-> location]
              /\ UNCHANGED resp
    /\ UNCHANGED << users, nextUserId, volunteers, nextVolId, missing_persons,
                    nextPersonId, admins, session, reg, env >>

\* GET /alerts: SELECT * FROM alerts ORDER BY id DESC
alerts_page ==
    /\ \E rows \in OrderBy({ alerts[i] : i \in DOMAIN alerts }, "id DESC") :
          resp' = Listing("alerts", rows)
    /\ UNCHANGED << users, nextUserId, volunteers, nextVolId, missing_persons,
                    nextPersonId, admins, alerts, session, reg, bc, env >>

\* The entry /api/disasters builds from an alert row.
Disaster(a) ==
    [id |-> a.id, disaster_type |-> a.title, location |-> "General Area",
     datetime |-> a.created_at, message |-> a.message]

\* GET /api/disasters: SELECT ... FROM alerts ORDER BY id DESC
api_disasters ==
    /\ \E rows \in OrderBy({ alerts[i] : i \in DOMAIN alerts }, "id DESC") :
          resp' = Listing("api_disasters", [i \in DOMAIN rows |-> Disaster(rows[i])])
    /\ UNCHANGED << users, nextUserId, volunteers, nextVolId, missing_persons,
                    nextPersonId, admins, alerts, session, reg, bc, env >>

\* GET /api/admin/alerts: SELECT ... FROM alerts ORDER BY created_at DESC
api_admin_alerts(c) ==
    /\ IF ~LoggedIn(c)
         THEN resp' = Response("api_admin_alerts", "unauthorized", 401)
         ELSE \E rows \in OrderBy({ alerts[i] : i \in DOMAIN alerts }, "created_at DESC") :
                 resp' = Listing("api_admin_alerts", rows)
    /\ UNCHANGED << users, nextUserId, volunteers, nextVolId, missing_persons,
                    nextPersonId, admins, alerts, session, reg, bc, env >>

\* GET /admin/dashboard: the alerts ORDER BY id DESC and the reports ORDER BY
\* created_at DESC handed to the template (beside the users and volunteers).
admin_dashboard(c) ==
    /\ IF ~LoggedIn(c)
         THEN resp' = Response("admin_dashboard", "redirect_login", 302)
         ELSE \E rows \in OrderBy({ alerts[i] : i \in DOMAIN alerts }, "id DESC"),
                 persons \in OrderBy(missing_persons, "created_at DESC") :
                 resp' = [op |-> "admin_dashboard", kind |-> "ok", code |-> 200,
                          alerts |-> rows, missing_persons |-> persons]
    /\ UNCHANGED << users, nextUserId, volunteers, nextVolId, missing_persons,
                    nextPersonId, admins, alerts, session, reg, bc, env >>

\* "if emails:": send_email_bulk is called for a non-empty list only.
EmailStage(emails) == IF emails # << >> THEN "email" ELSE "return"

\* broadcast_alert from its start to the end of the submit loop: the SELECT,
\* the two lists, the early return, one send_sms task per phone.
BroadcastStart ==
    /\ bc.pc = "broadcast"
    /\ LET rows == ResolveUsers(bc.location)
           phones == Column(rows, "phone")
           emails == Column(rows, "email")
           started ==
               [pc |-> "sms", alert |-> bc.alert, location |-> bc.location,
                phones |-> phones, emails |-> emails,
                task |-> SubmitAll(Len(phones)),
                got |-> << >>, sms_sent |-> 0,
                login |-> "none", mailed |-> << >>, quit |-> "none",
                sent_count |-> 0, email_sent |-> 0, total_sent |-> 0]
       IN  bc' = IF phones = << >> /\ emails = << >>
                   THEN [started EXCEPT !.pc = "return", !.task = << >>]
                 ELSE IF phones # << >>
                   THEN started
                 ELSE [started EXCEPT !.pc = EmailStage(emails)]
    /\ UNCHANGED << users, nextUserId, volunteers, nextVolId, missing_persons,
                    nextPersonId, admins, alerts, session, reg, resp, env >>

\* The outcomes of send_sms: False without a call when Twilio is not
\* configured, else the outcome of messages.create.
SmsOutcomes == IF env.twilio THEN {"ok", "fail"} ELSE {"unconfigured"}

\* The next task a freed worker takes from the pool's queue.
StartNext(task) ==
    IF \E i \in DOMAIN task : task[i] = "queued"
      THEN LET i == CHOOSE k \in DOMAIN task :
                      task[k] = "queued" /\ \A q \in 1..(k - 1) : task[q] # "queued"
           IN  [task EXCEPT ![i] = "running"]
      ELSE task

\* A send_sms task ends on its worker thread.
SmsFinish(i, outcome) ==
    /\ bc.pc \in {"sms", "shutdown"}
    /\ i \in DOMAIN bc.task
    /\ bc.task[i] = "running"
    /\ outcome \in SmsOutcomes
    /\ bc' = [bc EXCEPT !.task = StartNext([bc.task EXCEPT ![i] = outcome])]
    /\ UNCHANGED << users, nextUserId, volunteers, nextVolId, missing_persons,
                    nextPersonId, admins, alerts, session, reg, resp, env >>

\* future.result(timeout=10) of the next future returns: counted when True.
FutureResult ==
    /\ bc.pc = "sms"
    /\ Len(bc.got) < Len(bc.task)
    /\ bc.task[Len(bc.got) + 1] \in {"ok", "fail", "unconfigured"}
    /\ bc' = [bc EXCEPT !.got = Append(@, bc.task[Len(bc.got) + 1] = "ok"),
                        !.sms_sent = IF bc.task[Len(bc.got) + 1] = "ok"
                                       THEN @ + 1 ELSE @]
    /\ UNCHANGED << users, nextUserId, volunteers, nextVolId, missing_persons,
                    nextPersonId, admins, alerts, session, reg, resp, env >>

\* future.result(timeout=10) of the next future raises TimeoutError: its task
\* has not ended within the wait. The exception is caught, nothing is counted.
FutureTimeout ==
    /\ bc.pc = "sms"
    /\ Len(bc.got) < Len(bc.task)
    /\ bc.task[Len(bc.got) + 1] \in {"queued", "running"}
    /\ bc' = [bc EXCEPT !.got = Append(@, FALSE)]
    /\ UNCHANGED << users, nextUserId, volunteers, nextVolId, missing_persons,
                    nextPersonId, admins, alerts, session, reg, resp, env >>

\* The result loop is over: the with block leaves, executor.shutdown(wait=True).
ResultsDone ==
    /\ bc.pc = "sms"
    /\ Len(bc.got) = Len(bc.task)
    /\ bc' = [bc EXCEPT !.pc = "shutdown"]
    /\ UNCHANGED << users, nextUserId, volunteers, nextVolId, missing_persons,
                    nextPersonId, admins, alerts, session, reg, resp, env >>

\* Mutant: shutdown(wait=False), the call goes on while tasks still run.
ExecutorShutdown_NoWait ==
    /\ bc.pc = "shutdown"
    /\ bc' = [bc EXCEPT !.pc = EmailStage(bc.emails)]
    /\ UNCHANGED << users, nextUserId, volunteers, nextVolId, missing_persons,
                    nextPersonId, admins, alerts, session, reg, resp, env >>

\* shutdown(wait=True) returns once every task has ended; "if emails:" follows.
ExecutorShutdown ==
    /\ bc.pc = "shutdown"
    /\ \A i \in DOMAIN bc.task : bc.task[i] \in {"ok", "fail", "unconfigured"}
    /\ bc' = [bc EXCEPT !.pc = EmailStage(bc.emails)]
    /\ UNCHANGED << users, nextUserId, volunteers, nextVolId, missing_persons,
                    nextPersonId, admins, alerts, session, reg, resp, env >>

\* send_email_bulk up to the login: 0 without a connection when the email
\* configuration is missing, 0 when SMTP_SSL(...) or login raises.
EmailConnect(ok) ==
    /\ bc.pc = "email"
    /\ bc' = IF ~env.email
               THEN [bc EXCEPT !.pc = "return", !.email_sent = 0,
                               !.login = "unconfigured"]
             ELSE IF ~ok
               THEN [bc EXCEPT !.pc = "return", !.email_sent = 0,
                               !.login = "failed"]
             ELSE [bc EXCEPT !.pc = "mail", !.login = "ok"]
    /\ UNCHANGED << users, nextUserId, volunteers, nextVolId, missing_persons,
                    nextPersonId, admins, alerts, session, reg, resp, env >>

\* Mutant: the first send_message that raises ends the loop.
EmailSend_StopOnFailure(ok) ==
    /\ bc.pc = "mail"
    /\ Len(bc.mailed) < Len(bc.emails)
    /\ bc' = IF ok
               THEN [bc EXCEPT !.mailed = Append(@, "ok"), !.sent_count = @ + 1]
               ELSE [bc EXCEPT !.mailed = Append(@, "fail"), !.pc = "return",
                               !.quit = "ok", !.email_sent = bc.sent_count]
    /\ UNCHANGED << users, nextUserId, volunteers, nextVolId, missing_persons,
                    nextPersonId, admins, alerts, session, reg, resp, env >>

\* Mutant: a recipient whose send_message raised is tried again.
EmailSend_RetryFailed(ok) ==
    /\ bc.pc = "mail"
    /\ bc.sent_count < Len(bc.emails)
    /\ bc' = [bc EXCEPT !.mailed = Append(@, IF ok THEN "ok" ELSE "fail"),
                        !.sent_count = IF ok THEN @ + 1 ELSE @]
    /\ UNCHANGED << users, nextUserId, volunteers, nextVolId, missing_persons,
                    nextPersonId, admins, alerts, session, reg, resp, env >>

\* One turn of "for email in recipients": server.send_message(msg); counted
\* when it returns, logged and skipped when it raises.
EmailSend(ok) ==
    /\ bc.pc = "mail"
    /\ Len(bc.mailed) < Len(bc.emails)
    /\ bc' = [bc EXCEPT !.mailed = Append(@, IF ok THEN "ok" ELSE "fail"),
                        !.sent_count = IF ok THEN @ + 1 ELSE @]
    /\ UNCHANGED << users, nextUserId, volunteers, nextVolId, missing_persons,
                    nextPersonId, admins, alerts, session, reg, resp, env >>

\* The with block of send_email_bulk leaves (SMTP QUIT): "return sent_count",
\* or 0 from the outer handler when leaving raises.
EmailQuit(ok) ==
    /\ bc.pc = "mail"
    /\ Len(bc.mailed) = Len(bc.emails)
    /\ bc' = [bc EXCEPT !.pc = "return", !.quit = IF ok THEN "ok" ELSE "error",
                        !.email_sent = IF ok THEN bc.sent_count ELSE 0]
    /\ UNCHANGED << users, nextUserId, volunteers, nextVolId, missing_persons,
                    nextPersonId, admins, alerts, session, reg, resp, env >>

\* Mutant: the two channels are added up.
TotalSent_Sum(sms_sent, email_sent) == sms_sent + email_sent

\* total_sent = max(sms_sent, email_sent)
TotalSent(sms_sent, email_sent) == Max(sms_sent, email_sent)

\* broadcast_alert returns; add_alert flashes the outcome and redirects.
BroadcastReturn ==
    /\ bc.pc = "return"
    /\ LET recipients == TotalSent(bc.sms_sent, bc.email_sent)
       IN  /\ bc' = [bc EXCEPT !.pc = "done", !.total_sent = recipients]
           /\ resp' = IF recipients > 0
                        THEN Response("add_alert", "alert_sent", 302)
                        ELSE Response("add_alert", "alert_stored_none", 302)
    /\ UNCHANGED << users, nextUserId, volunteers, nextVolId, missing_persons,
                    nextPersonId, admins, alerts, session, reg, env >>

\* ------------------------------------------------------------------ SpecReg
\* Registration requests handled one at a time, with every request form, and
\* the administrator's session and deletion of subscribers.
NextReg ==
    \/ \E m \in RegModes, f \in RegForms : RegisterReceive("r1", m, f)
    \/ RegisterCheck("r1")
    \/ RegisterInsert("r1")
    \/ \E u \in Usernames, p \in Passwords : admin_login("c1", u, p)
    \/ admin_logout("c1")
    \/ \E id \in 1..MaxUserId : admin_delete_user("c1", id)
    \/ \E id \in 1..(MaxUserId + 1) : api_admin_delete_user("c1", id)

SpecReg == Init /\ [][NextReg]_vars

\* Registration requests on two request threads, interleaved with each other
\* and with the administrator's deletion of subscribers.
RaceForms ==
    { f \in RegForms : f.phone \in {<< >>, TenDigits} /\ f.location # << " " >> }

NextRace ==
    \/ \E r \in RegReqs, m \in {"register_form", "api_register"},
          f \in RaceForms : RegisterReceive(r, m, f)
    \/ \E r \in RegReqs : RegisterCheck(r)
    \/ \E r \in RegReqs : RegisterInsert(r)
    \/ admin_login("c1", "admin", "admin123")
    \/ \E id \in 1..MaxUserId : admin_delete_user("c1", id)

SpecRace == Init /\ [][NextRace]_vars

\* ------------------------------------------------------------------ SpecAlert
\* The registrations that fill the store before the alerts are sent.
AlertForms ==
    [email : {EmailA, EmailB}, phone : {TenDigits}, location : {Pune, pune, Goa}]

\* Largest number of registrations before the alerts are sent.
MaxSubscribers == 2

\* The users table after the registration requests fs are handled in order,
\* one at a time, starting from rows: each by the check and insert of register.
RECURSIVE RegisterAll(_, _)
RegisterAll(rows, fs) ==
    IF fs = << >> THEN rows
    ELSE LET f == Head(fs)
             taken == \E u \in rows : u.email = NormEmail(f.email)
             row == [id |-> Cardinality(rows) + 1, email |-> NormEmail(f.email),
                     phone |-> phone_with_prefix(NormPhone(f.phone)),
                     location |-> NormLocation(f.location)]
         IN  RegisterAll(IF RegValid(f) /\ ~taken THEN rows \cup {row} ELSE rows,
                         Tail(fs))

RegistrationRuns ==
    UNION { [1..n -> AlertForms] : n \in 0..MaxSubscribers }

\* The server with some subscribers registered and any set of credentials.
InitAlert ==
    /\ \E fs \in RegistrationRuns :
          /\ users = RegisterAll({}, fs)
          /\ nextUserId = Cardinality(users) + 1
    /\ volunteers = {}
    /\ nextVolId = 1
    /\ missing_persons = {}
    /\ nextPersonId = 1
    /\ admins = { [username |-> "admin",
                   password |-> generate_password_hash("admin123")] }
    /\ alerts = << >>
    /\ session = [c \in Clients |-> FALSE]
    /\ reg = [r \in RegReqs |-> Idle]
    /\ bc = Idle
    /\ resp = NoResp
    /\ env \in Envs

Titles == { << >>, << "F", "l", "o", "o", "d" >> }
Messages == { None, << "G", "o" >> }
AlertLocations == { << >>, Pune }

NextAlert ==
    \/ admin_login("c1", "admin", "admin123")
    \/ \E t \in Titles, m \in Messages, l \in AlertLocations :
          add_alert("c1", t, m, l)
    \/ BroadcastStart
    \/ \E i \in 1..MaxSubscribers, o \in {"ok", "fail", "unconfigured"} :
          SmsFinish(i, o)
    \/ FutureResult
    \/ FutureTimeout
    \/ ResultsDone
    \/ ExecutorShutdown
    \/ \E ok \in BOOLEAN : EmailConnect(ok)
    \/ \E ok \in BOOLEAN : EmailSend(ok)
    \/ \E ok \in BOOLEAN : EmailQuit(ok)
    \/ BroadcastReturn

SpecAlert == InitAlert /\ [][NextAlert]_vars

\* ------------------------------------------------------------------ SpecMissing
\* Missing-person reports from the public and their administration.
NextMissing ==
    \/ \E api \in BOOLEAN, ph \in Photos, ok \in BOOLEAN : report_missing(api, ph, ok)
    \/ \E ph \in Photos : api_report_missing(ph)
    \/ \E u \in Usernames, p \in Passwords : admin_login("c1", u, p)
    \/ admin_logout("c1")
    \/ \E id \in 1..(MaxPersonId + 1), st \in Statuses :
          update_missing_status("c1", id, st)
    \/ \E id \in 1..MaxPersonId : admin_delete_missing("c1", id)
    \/ missing
    \/ api_missing_persons
    \/ admin_dashboard("c1")

SpecMissing == Init /\ [][NextMissing]_vars

\* ------------------------------------------------------------------ SpecVolunteers
\* Volunteer enrolment by the public and the administrator's deletions.
NextVolunteers ==
    \/ \E e \in VolEmails : volunteer_enroll(e)
    \/ \E u \in Usernames, p \in Passwords : admin_login("c1", u, p)
    \/ admin_logout("c1")
    \/ \E id \in 1..MaxVolId : delete_volunteer("c1", id)
    \/ \E id \in 1..MaxVolId : admin_delete_volunteer("c1", id)
    \/ \E id \in 1..(MaxVolId + 1) : api_admin_delete_volunteer("c1", id)

SpecVolunteers == Init /\ [][NextVolunteers]_vars

\* ------------------------------------------------------------------ SpecAdmin
\* The server with a subscriber, a volunteer and a report from the public.
InitAdmin ==
    /\ users = RegisterAll({}, << [email |-> EmailA, phone |-> TenDigits,
                                   location |-> Pune] >>)
    /\ nextUserId = 2
    /\ volunteers = { [id |-> 1, email |-> "v1@x"] }
    /\ nextVolId = 2
    /\ missing_persons = { [id |-> 1, status |-> "active", photo_url |-> None,
                             created_at |-> 1] }
    /\ nextPersonId = 2
    /\ admins = { [username |-> "admin",
                   password |-> generate_password_hash("admin123")] }
    /\ alerts = << >>
    /\ session = [c \in Clients |-> FALSE]
    /\ reg = [r \in RegReqs |-> Idle]
    /\ bc = Idle
    /\ resp = NoResp
    /\ env = Configured

\* Every administrator operation, from the session c1 that logs in and out
\* and from a second session c2 that never logs in.
NextAdmin ==
    \/ \E u \in Usernames, p \in Passwords : admin_login("c1", u, p)
    \/ \E u \in Usernames \cup {""}, p \in Passwords \cup {""} :
          api_admin_login("c1", u, p)
    \/ admin_logout("c1")
    \/ api_admin_logout("c1")
    \/ \E c \in Clients, t \in Titles, m \in Messages : add_alert(c, t, m, Pune)
    \/ BroadcastStart
    \/ SmsFinish(1, "ok")
    \/ FutureResult
    \/ FutureTimeout
    \/ ResultsDone
    \/ ExecutorShutdown
    \/ EmailConnect(TRUE)
    \/ EmailSend(TRUE)
    \/ EmailQuit(TRUE)
    \/ BroadcastReturn
    \/ \E c \in Clients, st \in Statuses : update_missing_status(c, 1, st)
    \/ \E c \in Clients : admin_delete_user(c, 1)
    \/ \E c \in Clients, id \in 1..2 : api_admin_delete_user(c, id)
    \/ \E c \in Clients : delete_volunteer(c, 1)
    \/ \E c \in Clients : admin_delete_volunteer(c, 1)
    \/ \E c \in Clients, id \in 1..2 : api_admin_delete_volunteer(c, id)
    \/ \E c \in Clients : admin_delete_missing(c, 1)
    \/ alerts_page
    \/ api_disasters
    \/ \E c \in Clients : api_admin_alerts(c)
    \/ \E c \in Clients : admin_dashboard(c)

SpecAdmin == InitAdmin /\ [][NextAdmin]_vars

\* ------------------------------------------------------------------ claims
\* TRUE when a subscriber with this (normalised) email is in the store.
Stored(email) == \E u \in users : u.email = email

\* The code a registration ends with: 200 with a banner for the form.
CodeFor(mode, json) == IF mode = "register_form" THEN 200 ELSE json

\* TRUE in a step in which thread r runs the validations and duplicate check.
CheckStep(r) == reg[r].pc = "recv" /\ reg'[r].pc # "recv"

\* TRUE in a step in which thread r runs its INSERT.
InsertStep(r) == reg[r].pc = "insert" /\ reg'[r].pc # "insert"

\* The request passes the field validations: a non-empty email and location
\* and a phone of 10 digits, all after trimming.
FieldsValid(f) ==
    /\ strip(f.email) # << >>
    /\ strip(f.location) # << >>
    /\ isdigit(strip(f.phone))
    /\ Len(strip(f.phone)) = 10

\* C1 as stated: every registration request whose trimmed, lower-cased email
\* is the email of a stored subscriber leaves the subscribers unchanged and
\* ends in the conflict outcome (409 for JSON).
C1_AnyDuplicateConflicts ==
    [][\A r \in RegReqs :
         (CheckStep(r) /\ Stored(lower(strip(reg[r].form.email))))
           => /\ users' = users
              /\ reg'[r].pc = "done"
              /\ reg'[r].kind = "conflict"
              /\ reg'[r].code = CodeFor(reg[r].mode, 409)]_vars

\* C1 amended: a registration request that passes the field validations
\* (non-empty email and location, a phone of 10 digits) and whose trimmed,
\* lower-cased email is the email of a stored subscriber leaves the
\* subscribers unchanged and ends in the conflict outcome (409 for JSON).
C1_ValidDuplicateConflicts ==
    [][\A r \in RegReqs :
         (/\ CheckStep(r)
          /\ Stored(lower(strip(reg[r].form.email)))
          /\ FieldsValid(reg[r].form))
           => /\ users' = users
              /\ reg'[r].pc = "done"
              /\ reg'[r].kind = "conflict"
              /\ reg'[r].code = CodeFor(reg[r].mode, 409)]_vars

\* A request has ended in the conflict outcome while its email is stored.
C1_Witness ==
    \E r \in RegReqs :
        /\ reg[r].pc = "done"
        /\ reg[r].kind = "conflict"
        /\ Stored(EmailA)

\* C2: a registration request with a non-empty email not in the store, a
\* phone of 10 digits and a non-empty location is not rejected, and its
\* insert adds exactly one subscriber, holding the lower-cased email, the
\* phone with its prefix and the location, changes no other subscriber and
\* ends in success (201 for JSON).
C2_NewSubscriberAdded ==
    [][\A r \in RegReqs :
         /\ (/\ CheckStep(r)
             /\ FieldsValid(reg[r].form)
             /\ ~Stored(lower(strip(reg[r].form.email))))
              => reg'[r] = [reg[r] EXCEPT !.pc = "insert"]
         /\ (InsertStep(r) /\ ~Stored(lower(strip(reg[r].form.email))))
              => /\ \E u \in users' \ users :
                      /\ users' = users \cup {u}
                      /\ u.email = lower(strip(reg[r].form.email))
                      /\ u.phone = << "+", "9", "1" >> \o strip(reg[r].form.phone)
                      /\ u.location = strip(reg[r].form.location)
                 /\ Cardinality(users') = Cardinality(users) + 1
                 /\ reg'[r].kind = "created"
                 /\ reg'[r].code = CodeFor(reg[r].mode, 201)]_vars

\* A request has ended in success and its subscriber is stored beside another.
C2_Witness ==
    \E r \in RegReqs :
        /\ reg[r].pc = "done"
        /\ reg[r].kind = "created"
        /\ Cardinality(users) = 2

\* C3: in every reachable state no two subscribers have the same email, and
\* every stored email is trimmed and lower-case.
C3_EmailUniqueNormalised ==
    /\ \A u1, u2 \in users : u1.email = u2.email => u1 = u2
    /\ \A u \in users : u.email = lower(strip(u.email))

\* A registration lost the race for its email: its INSERT was refused while
\* the winner's subscriber is stored.
C3_Witness ==
    \E r \in RegReqs :
        /\ reg[r].pc = "done"
        /\ reg[r].kind = "failed"
        /\ users # {}

\* broadcast_alert has resolved its recipients.
Started == bc.pc \notin {"idle", "broadcast"}

\* The elements of a list.
Elems(seq) == { seq[i] : i \in DOMAIN seq }

\* The number of places of a list that hold v.
CountIn(seq, v) == Cardinality({ i \in DOMAIN seq : seq[i] = v })

\* The subscribers of the location X of the broadcast, letter case ignored;
\* all subscribers when no location is given.
SubscribersOf(location) ==
    IF location = None \/ location = << >>
      THEN users
      ELSE { u \in users : lower(u.location) = lower(location) }

\* C4: the recipients of a broadcast for location X are exactly the
\* subscribers whose location equals X ignoring letter case (a subscriber of
\* 'pune' is a recipient of a broadcast for 'Pune'), and all subscribers when
\* no location is given.
C4_RecipientsIgnoreCase ==
    Started =>
        /\ Elems(bc.emails) = { u.email : u \in SubscribersOf(bc.location) }
        /\ Elems(bc.phones) = { u.phone : u \in SubscribersOf(bc.location) }

\* C5: from the moment add_alert hands over to broadcast_alert, so before any
\* send and after the request whatever the transports did, the alert row of
\* the request is in the alerts table.
C5_AlertStoredBeforeDispatch ==
    bc.pc # "idle" =>
        /\ bc.alert \in DOMAIN alerts
        /\ alerts[bc.alert].id = bc.alert
        /\ alerts[bc.alert].location = bc.location

\* The request is over, there were recipients on both channels, no
\* credential is configured, nothing was sent, and the alert is stored.
C5_Witness ==
    /\ bc.pc = "done"
    /\ bc.phones # << >> /\ bc.emails # << >>
    /\ ~env.twilio /\ ~env.email
    /\ bc.total_sent = 0
    /\ bc.alert \in DOMAIN alerts

\* C6: when the resolved subscriber set has no phone and no email, in
\* particular with no subscriber at all or none in the requested location,
\* broadcast_alert returns 0, submits no send_sms task and opens no SMTP
\* connection.
C6_NoRecipientsNoTransport ==
    (Started /\ (SubscribersOf(bc.location) = {}
                   \/ (bc.phones = << >> /\ bc.emails = << >>)))
      => /\ bc.pc \in {"return", "done"}
         /\ bc.task = << >>
         /\ bc.login = "none"
         /\ bc.mailed = << >>
         /\ bc.sms_sent = 0 /\ bc.email_sent = 0
         /\ bc.pc = "done" => bc.total_sent = 0

\* A broadcast for Pune is over with subscribers stored, none of them there.
C6_Witness ==
    /\ bc.pc = "done"
    /\ users # {}
    /\ bc.location = Pune
    /\ SubscribersOf(Pune) = {}
    /\ bc.total_sent = 0

\* C7 as stated: when broadcast_alert has returned, send_sms has run for every
\* phone recipient and send_message has been tried for every email recipient.
C7_EveryRecipientAttempted ==
    bc.pc = "done" =>
        /\ Len(bc.task) = Len(bc.phones)
        /\ \A i \in DOMAIN bc.task : bc.task[i] \in {"ok", "fail", "unconfigured"}
        /\ Len(bc.mailed) = Len(bc.emails)

\* C7 amended: when broadcast_alert has returned, send_sms has run for every
\* phone recipient (reaching Twilio when it is configured) whatever the other
\* sends did; send_email_bulk was called whenever there is an email recipient,
\* whatever the SMS channel did; and once the SMTP login has succeeded
\* send_message has been tried for every email recipient, also after a failed
\* one. Without email configuration or login no email is tried.
C7_BestEffortPerRecipient ==
    bc.pc = "done" =>
        /\ Len(bc.task) = Len(bc.phones)
        /\ \A i \in DOMAIN bc.task :
              /\ bc.task[i] \in {"ok", "fail", "unconfigured"}
              /\ env.twilio => bc.task[i] \in {"ok", "fail"}
        /\ bc.emails # << >> => bc.login # "none"
        /\ bc.login = "ok" => Len(bc.mailed) = Len(bc.emails)
        /\ bc.login # "ok" => bc.mailed = << >>

\* Two recipients: the first SMS and the first email failed, the second SMS
\* and the second email were sent.
C7_Witness ==
    /\ bc.pc = "done"
    /\ bc.task = << "fail", "ok" >>
    /\ bc.mailed = << "fail", "ok" >>

\* C8 as stated: the number returned is the larger of the number of SMS sends
\* that succeeded and the number of email sends that succeeded.
C8_MaxOfSucceeded ==
    bc.pc = "done" =>
        bc.total_sent = Max(CountIn(bc.task, "ok"), CountIn(bc.mailed, "ok"))

\* C8 amended: the number returned is the larger of the number of SMS sends
\* whose success was collected within the result wait and the number of email
\* sends that succeeded (0 when the SMTP session did not close cleanly); a
\* failed send is never counted, so the number is at most the number of sends
\* that succeeded on the better channel and at most the number of resolved
\* subscribers; it is 1 for a single recipient whose SMS success was
\* collected or whose email was sent in a session that closed cleanly.
C8_MaxOfCounted ==
    bc.pc = "done" =>
        /\ bc.total_sent =
              Max(CountIn(bc.got, TRUE),
                  IF bc.quit = "ok" THEN CountIn(bc.mailed, "ok") ELSE 0)
        /\ bc.total_sent <= Max(CountIn(bc.task, "ok"), CountIn(bc.mailed, "ok"))
        /\ bc.total_sent <= Cardinality(SubscribersOf(bc.location))
        /\ (/\ Len(bc.phones) = 1
            /\ \/ bc.got = << TRUE >>
               \/ bc.mailed = << "ok" >> /\ bc.quit = "ok")
              => bc.total_sent = 1

\* Two recipients: one SMS success came after its wait timed out, the other
\* was collected; one email was sent; the number returned is 1.
C8_Witness ==
    /\ bc.pc = "done"
    /\ bc.task = << "ok", "ok" >>
    /\ bc.got = << FALSE, TRUE >>
    /\ bc.mailed = << "ok", "fail" >>
    /\ bc.total_sent = 1

\* C9: a logged-in administrator's update_missing_status for a report id that
\* is not in the store ends in the not-found outcome and changes no report.
C9_UnknownReportNotFound ==
    [][\A id \in 1..(MaxPersonId + 1), st \in Statuses :
         (/\ session["c1"]
          /\ ~ \E p \in missing_persons : p.id = id
          /\ update_missing_status("c1", id, st))
           => /\ missing_persons' = missing_persons
              /\ resp'.kind = "not_found"
              /\ resp'.code = 404]_vars

\* The step is an administrator-only request of client c.
AdminRequest(c) ==
    \/ \E t \in Titles, m \in Messages, l \in AlertLocations : add_alert(c, t, m, l)
    \/ \E id \in 1..2, st \in Statuses : update_missing_status(c, id, st)
    \/ \E id \in 1..2 :
          \/ admin_delete_user(c, id)
          \/ api_admin_delete_user(c, id)
          \/ admin_delete_missing(c, id)
    \/ \E id \in 1..(MaxVolId + 1) :
          \/ delete_volunteer(c, id)
          \/ admin_delete_volunteer(c, id)
          \/ api_admin_delete_volunteer(c, id)

\* The operations answered with a redirect to the login page, and with 401.
WebAdminOps ==
    {"add_alert", "admin_delete_user", "delete_volunteer",
     "admin_delete_volunteer", "admin_delete_missing"}
JsonAdminOps ==
    {"update_missing_status", "api_admin_delete_user", "api_admin_delete_volunteer"}

\* C10: an administrator-only request in a session where admin_logged_in is
\* not set changes no subscriber, volunteer, report or alert, starts no
\* broadcast and is answered with a redirect to login (web) or 401 (JSON);
\* admin_logged_in becomes set only by a login with a stored username and its
\* password, and is not set after a logout.
C10_AdminOnly ==
    [][\A c \in Clients :
         /\ (~session[c] /\ AdminRequest(c))
              => /\ users' = users
                 /\ volunteers' = volunteers
                 /\ missing_persons' = missing_persons
                 /\ alerts' = alerts
                 /\ bc' = bc
                 /\ \/ /\ resp'.op \in WebAdminOps
                       /\ resp'.kind = "redirect_login" /\ resp'.code = 302
                    \/ /\ resp'.op \in JsonAdminOps
                       /\ resp'.kind = "unauthorized" /\ resp'.code = 401
         /\ (~session[c] /\ session'[c])
              => \E u \in Usernames, p \in Passwords :
                    /\ [username |-> u, password |-> << "hash", p >>] \in admins
                    /\ admin_login(c, u, p) \/ api_admin_login(c, u, p)
         /\ (admin_logout(c) \/ api_admin_logout(c)) => ~session'[c]]_vars

\* The administrator is logged in in one session, the tables are filled, and
\* a delete-user request from the other session was sent to the login page.
C10_Witness ==
    /\ session["c1"] /\ ~session["c2"]
    /\ resp.op = "admin_delete_user" /\ resp.kind = "redirect_login"
    /\ users # {} /\ volunteers # {} /\ missing_persons # {}

\* C11 as stated: when two registration requests for the same email have both
\* run the duplicate check before either inserted, the INSERT of the second
\* one succeeds too and two subscribers with that email are stored.
C11_BothInsertsSucceed ==
    [][\A r \in RegReqs :
         (InsertStep(r) /\ Stored(lower(strip(reg[r].form.email))))
           => /\ reg'[r].kind = "created"
              /\ Cardinality({ u \in users' :
                     u.email = lower(strip(reg[r].form.email)) }) = 2]_vars

\* C11 amended: two registration requests for the same email can both run the
\* duplicate check before either inserts; the INSERT that comes second is
\* then refused, its request ends in the failure outcome (500 for JSON), the
\* subscribers are unchanged and one subscriber with that email is stored.
C11_SecondInsertRefused ==
    [][\A r \in RegReqs :
         (InsertStep(r) /\ Stored(lower(strip(reg[r].form.email))))
           => /\ users' = users
              /\ reg'[r].pc = "done"
              /\ reg'[r].kind = "failed"
              /\ reg'[r].code = CodeFor(reg[r].mode, 500)
              /\ Cardinality({ u \in users' :
                     u.email = lower(strip(reg[r].form.email)) }) = 1]_vars

\* Both requests passed the duplicate check and went to the INSERT: the one
\* of r2 was created, the one of r1 refused, and one subscriber is stored.
C11_Witness ==
    /\ reg["r2"].pc = "done" /\ reg["r2"].kind = "created"
    /\ reg["r1"].pc = "done" /\ reg["r1"].kind = "failed"
    /\ Cardinality(users) = 1
    /\ \E u \in users : u.email = EmailA

\* A phone of exactly 10 decimal digits.
TenDecimalDigits(p) == Len(p) = 10 /\ \A i \in DOMAIN p : p[i] \in Digits

\* C12: a registration request whose email, phone or location is empty (after
\* trimming), or whose phone is not exactly 10 decimal digits, ends in the
\* validation outcome (400 for JSON) without reaching the INSERT and leaves
\* the subscribers unchanged, whether or not its email is stored.
C12_InvalidRejectedFirst ==
    [][\A r \in RegReqs :
         (/\ CheckStep(r)
          /\ \/ strip(reg[r].form.email) = << >>
             \/ strip(reg[r].form.phone) = << >>
             \/ strip(reg[r].form.location) = << >>
             \/ ~TenDecimalDigits(strip(reg[r].form.phone)))
           => /\ users' = users
              /\ reg'[r].pc = "done"
              /\ reg'[r].kind = "validation"
              /\ reg'[r].code = CodeFor(reg[r].mode, 400)]_vars

\* C13: in every reachable state every stored subscriber phone is '+91'
\* followed by exactly 10 decimal digits.
C13_PhonesPrefixedDecimal ==
    \A u \in users :
        /\ Len(u.phone) = 13
        /\ SubSeq(u.phone, 1, 3) = << "+", "9", "1" >>
        /\ TenDecimalDigits(SubSeq(u.phone, 4, 13))

\* The step is a complete report without a photo, by either entry point.
ReportWithoutPhoto ==
    \/ \E api \in BOOLEAN : report_missing(api, "none", TRUE)
    \/ api_report_missing("none")

\* The step is a public listing of the reports.
PublicListing == missing \/ api_missing_persons

\* The step is a status update or a deletion by the logged-in administrator.
AdminChangesReport(id) ==
    \E c \in Clients :
        /\ session[c]
        /\ \/ \E st \in Statuses : update_missing_status(c, id, st)
           \/ admin_delete_missing(c, id)

\* C14: a report submitted without a photo adds exactly one record, with a
\* null photo reference and the status 'active'; every public listing then
\* returns it, and it stays stored and active until a logged-in
\* administrator updates its status or deletes it.
C14_ReportWithoutPhotoListed ==
    [][/\ ReportWithoutPhoto
          => \E p \in missing_persons' \ missing_persons :
                /\ missing_persons' = missing_persons \cup {p}
                /\ Cardinality(missing_persons') = Cardinality(missing_persons) + 1
                /\ p.photo_url = None
                /\ p.status = "active"
       /\ PublicListing
          => \A p \in missing_persons :
                p.status = "active" => \E i \in DOMAIN resp'.rows : resp'.rows[i] = p
       /\ \A p \in missing_persons :
             (p.status = "active" /\ p \notin missing_persons')
                => AdminChangesReport(p.id)]_vars

\* Both public listings have a report without a photo: the last listing
\* returned two active reports, one with a null photo reference.
C14_Witness ==
    /\ resp.op \in {"missing", "api_missing_persons"}
    /\ Len(resp.rows) = 2
    /\ \E i \in DOMAIN resp.rows :
          resp.rows[i].photo_url = None /\ resp.rows[i].status = "active"
    /\ \A i \in DOMAIN resp.rows : resp.rows[i] \in missing_persons

\* C15: every public listing of the reports (the /missing page and
\* /api/missing-persons) returns only reports whose status is 'active'; the
\* administrator's listing returns every report, the active ones first and
\* within the same status the newest first.
C15_PublicListingsActiveOnly ==
    /\ resp.op \in {"missing", "api_missing_persons"}
          => \A i \in DOMAIN resp.rows : resp.rows[i].status = "active"
    /\ (resp.op = "admin_dashboard" /\ resp.kind = "ok")
          => /\ { resp.missing_persons[i] : i \in DOMAIN resp.missing_persons }
                   = missing_persons
             /\ \A i, j \in DOMAIN resp.missing_persons :
                   i < j => ActiveFirstCreatedDesc(resp.missing_persons[i],
                                                   resp.missing_persons[j])

\* C16: the status of every report is 'active' or 'resolved', and the only
\* change of status any step makes is from 'active' to 'resolved'.
C16_ActiveThenResolved ==
    [][/\ \A q \in missing_persons' : q.status \in {"active", "resolved"}
       /\ \A p \in missing_persons, q \in missing_persons' :
             (p.id = q.id /\ p.status # q.status)
                => p.status = "active" /\ q.status = "resolved"]_vars

\* The rows of a listing come newest first: each was inserted after the next.
NewestFirst(rows) == \A i, j \in DOMAIN rows : i < j => rows[i].id > rows[j].id

\* The step is an add_alert request with a title and a message, accepted
\* from the logged-in session c.
AcceptedAlert(c) ==
    /\ session[c]
    /\ \E t \in Titles, m \in Messages, l \in AlertLocations :
          Truthy(t) /\ Truthy(m) /\ add_alert(c, t, m, l)

\* The step is an add_alert request without a title or without a message.
EmptyAlert(c) ==
    \E t \in Titles, m \in Messages, l \in AlertLocations :
        (~Truthy(t) \/ ~Truthy(m)) /\ add_alert(c, t, m, l)

\* C17: no step changes or removes a stored alert; an accepted add_alert
\* request adds exactly one alert and a request without title or message
\* adds none; every listing of the alerts (the alerts page, /api/disasters,
\* the dashboard, /api/admin/alerts) returns them newest first.
C17_AppendOnlyNewestFirst ==
    [][/\ Len(alerts') >= Len(alerts)
       /\ SubSeq(alerts', 1, Len(alerts)) = alerts
       /\ \A c \in Clients :
             /\ AcceptedAlert(c) => Len(alerts') = Len(alerts) + 1
             /\ EmptyAlert(c) => alerts' = alerts
       /\ (alerts_page \/ api_disasters
              \/ \E c \in Clients : session[c] /\ api_admin_alerts(c))
             => Len(resp'.rows) = Len(alerts) /\ NewestFirst(resp'.rows)
       /\ (\E c \in Clients : session[c] /\ admin_dashboard(c))
             => Len(resp'.alerts) = Len(alerts) /\ NewestFirst(resp'.alerts)]_vars

\* The send_sms task has ended.
Ended(t) == t \in {"ok", "fail", "unconfigured"}

\* C18: within one broadcast_alert call there is one send_sms task for each
\* phone recipient and a task that has ended is not run again; send_message
\* is called at most once for each email recipient, in their order, also
\* after a send that failed or a result wait that timed out.
C18_NoRetries ==
    [][(Started /\ bc'.pc \notin {"idle", "broadcast"})
         => /\ bc'.phones = bc.phones /\ bc'.emails = bc.emails
            /\ Len(bc'.task) = Len(bc'.phones)
            /\ DOMAIN bc'.task = DOMAIN bc.task
            /\ \A i \in DOMAIN bc.task :
                  /\ Ended(bc.task[i]) => bc'.task[i] = bc.task[i]
                  /\ bc.task[i] = "running" => bc'.task[i] # "queued"
            /\ Len(bc'.mailed) <= Len(bc'.emails)
            /\ Len(bc'.mailed) \in {Len(bc.mailed), Len(bc.mailed) + 1}
            /\ SubSeq(bc'.mailed, 1, Len(bc.mailed)) = bc.mailed]_vars

\* A broadcast to two recipients is over: both result waits timed out, both
\* SMS and both emails failed, and each recipient was tried once.
C18_Witness ==
    /\ bc.pc = "done"
    /\ bc.got = << FALSE, FALSE >>
    /\ bc.task = << "fail", "fail" >>
    /\ bc.mailed = << "fail", "fail" >>

\* C19: broadcast_alert waits for its fan-out: once it has left the executor
\* block, so before the email channel is started and when it returns, every
\* send_sms task it submitted has ended, also those whose result wait timed
\* out; the SMS count only grows when a result wait returns True, so an SMS
\* that succeeds after its wait timed out is not in the returned figure.
C19_WaitsForFanOut ==
    [][/\ bc'.pc \in {"email", "mail", "return", "done"}
          => /\ \A i \in DOMAIN bc'.task : Ended(bc'.task[i])
             /\ Len(bc'.got) = Len(bc'.task)
             /\ bc'.sms_sent = CountIn(bc'.got, TRUE)
             /\ \A i \in DOMAIN bc'.got : bc'.got[i] => bc'.task[i] = "ok"
       /\ (Started /\ bc'.pc \notin {"idle", "broadcast"})
          => /\ bc.login = "none" /\ bc'.login # "none"
                => \A i \in DOMAIN bc.task : Ended(bc.task[i])
             /\ bc'.sms_sent # bc.sms_sent
                => /\ bc.pc = "sms"
                   /\ bc'.got = Append(bc.got, TRUE)
                   /\ bc.task[Len(bc'.got)] = "ok"
                   /\ bc'.sms_sent = bc.sms_sent + 1
             /\ (Len(bc'.got) > Len(bc.got) /\ ~Ended(bc.task[Len(bc'.got)]))
                => bc'.sms_sent = bc.sms_sent /\ bc'.got = Append(bc.got, FALSE)
       /\ bc'.pc = "done"
          => bc'.total_sent = Max(CountIn(bc'.got, TRUE), bc'.email_sent)]_vars

\* A broadcast is over: both SMS went out only after their result waits had
\* timed out, the email channel ran after them, and the figure returned is 0.
C19_Witness ==
    /\ bc.pc = "done"
    /\ bc.task = << "ok", "ok" >>
    /\ bc.got = << FALSE, FALSE >>
    /\ bc.login = "ok"
    /\ bc.mailed = << "fail", "fail" >>
    /\ bc.total_sent = 0

====
